---- MODULE Spec2Model ----
(***************************************************************************)
(* State-machine model of the audio ingestion pipeline of audio_visualizer *)
(* (src/audio/mic.rs, src/audio/stream.rs, src/audio/wav.rs, src/main.rs)  *)
(* and of its spectrum analyzer (src/analysis/analyzer.rs).                *)
(*                                                                         *)
(* One run of the program owns exactly one AudioSource (main.rs `model`):  *)
(* the microphone capture, the URL stream or the WAV file.  `mode` is that *)
(* choice; each action belongs to one mode.                                *)
(*                                                                         *)
(* Samples are integers.  0 is silence; every captured or decoded sample   *)
(* carries a distinct positive value so that single occurrences can be     *)
(* followed through the ring buffers.                                      *)
(***************************************************************************)
EXTENDS Integers, Sequences, FiniteSets, TLC

\* ---------------------------------------------------------------- bounds
\* largest fft_size an adapter is started with
MaxFft == 2
\* largest `size` argument handed to read_window
MaxSize == 2
\* largest channel count of the capture device
MaxChannels == 2
\* frames delivered by the capture device over a run
MaxCaptured == 5
\* frames in one activation of the capture callback
MaxFrames == 2
\* most samples the decoder emits before its stream ends
MaxStream == 3
\* calls of RingSource::next over a run; calls that find a decoded sample
\* in the audio ring buffer are not limited
MaxNext == 3
\* scaled stand-in for OUT_SAMPLE_RATE (samples per second of output)
OutRate == 1
\* the capture and visualization ring buffers hold RbFactor x fft_size
\* samples (8 x 2048 in the source; scaled down with fft_size)
RbFactor == 2
\* interleaved samples in the data chunk of a WAV file
MaxWavLen == 3
\* largest ordinary WAV sample rate (samples per second)
MaxWavRate == 2
\* largest channel count in a WAV header
MaxWavChannels == 3
\* largest `n` handed to window_at_time
MaxWavN == 4
\* calls of read_window over a run
MaxReads == 2
\* resolution of the modelled playback clock: ticks per second
TimeDen == 2
\* elapsed playback time in ticks of 1/TimeDen second
MaxTicks == 8

\* fixed-point resolution of the analyzer's numbers: 1.0 is Unit
Unit == 100
\* bars the analyzer is built with (BARS = 120 in main.rs, scaled)
Bars == 3
\* calls of analyze over a run
MaxAnalyze == 3

\* ------------------------------------------------------ program constants
\* the audio ring buffer holds 2 seconds of output
AudioSeconds == 2
\* duration floor 0.000_1 s, as a denominator
DurFloorDen == 10000
\* transform size the analyzer is built with (FFT_SIZE = 2048 in main.rs;
\* 4 is the size whose transform and Hann window are rational)
AnFft == 4
\* f_min and the cap of f_max, in Hz
FMin == 20
FMaxCap == 18000
\* the bass range of analyze, in Hz
BassLo == 20
BassHi == 120
\* smoothing factors, in hundredths
AlphaBands == 12
AlphaBassSlow == 8
AlphaBassFast == 30
AlphaDen == 100

VARIABLES
    mode,           \* main.rs Mode: "mic" | "url" | "wav"
    fftSize,        \* fft_size the adapter was started with
    channels,       \* capture device channel count
    startResult,    \* what the adapter's start / load returned:
                    \* "Pending" | "Ok" | "Err"
    wavFile,        \* the WAV file named on the command line
    micRb,          \* capture ring buffer (HeapRb, producer: callback)
    cbData,         \* frames left in the running callback activation
    captured,       \* frames delivered by the device so far
    micProduced,    \* history: mono samples the callback computed
    micPushed,      \* history: mono samples the capture ring accepted
    audioRb,        \* audio ring buffer (decode -> RingSource)
    vizRb,          \* visualization ring buffer (RingSource -> read_window)
    pl,             \* run_pipeline thread: [pc, pos, cur, slept, short]
    audioPushed,    \* history: samples the audio ring accepted
    audioPopped,    \* history: samples popped from the audio ring
    output,         \* history: samples returned by RingSource::next
    fwd,            \* history: the next() calls whose viz push was accepted
    window,         \* the adapter's sliding window (VecDeque)
    out,            \* caller's scratch vector
    rd,             \* read_window in progress: [pc, size]
    popped,         \* history: samples read_window popped
    reads,          \* read_window calls that have returned
    pushedAtRead,   \* history: accepted samples when the last read saw empty
    producedAtRead, \* history: produced samples at that moment
    samples_mono,   \* AudioData.samples_mono
    sample_rate,    \* AudioData.sample_rate
    ticks,          \* AudioPlayer elapsed time, in 1/TimeDen s
    wavSize,        \* `n` of the last window_at_time call (-1: none)
    wavT,           \* `t_sec` of the last window_at_time call, in ticks
    panicked,       \* the calling thread panicked
    anRate,         \* sample rate the analyzer is built and called with
    magnitues,      \* Analyzer.magnitues (bins 0 .. fft_size/2 - 1)
    smoothed_bands, \* Analyzer.smoothed_bands
    bass_fast,      \* Analyzer.bass_fast
    bass_smooth,    \* Analyzer.bass_smooth
    scratch_window, \* Model.scratch_window handed to the last analyze call
    latestFrame,    \* AnalysisFrame returned by the last analyze call
    analyzed,       \* number of analyze calls so far
    binProbe,       \* last freq_range_to_bin_range call: arguments, result
    bandProbe       \* bin ranges of the bands of analyze for one setup

cfgVars == <<mode, fftSize, channels, startResult, wavFile,
             samples_mono, sample_rate>>
micVars == <<micRb, cbData, captured, micProduced, micPushed>>
urlVars == <<audioRb, vizRb, pl, audioPushed, audioPopped, output, fwd>>
rdVars  == <<window, out, rd, popped, reads, pushedAtRead, producedAtRead>>
wavVars == <<ticks, wavSize, wavT, panicked>>
anVars  == <<anRate, magnitues, smoothed_bands, bass_fast, bass_smooth,
             scratch_window, latestFrame, analyzed, binProbe, bandProbe>>
vars == <<cfgVars, micVars, urlVars, rdVars, wavVars, anVars>>

\* ------------------------------------------------------------- helpers
Min(a, b) == IF a < b THEN a ELSE b
Max(a, b) == IF a > b THEN a ELSE b

Zeros(n) == [i \in 1..n |-> 0]

\* the last n elements of s (all of s when it is shorter)
LastN(s, n) == SubSeq(s, Len(s) - Min(n, Len(s)) + 1, Len(s))

IsPrefix(p, s) == Len(p) <= Len(s) /\ SubSeq(s, 1, Len(p)) = p

RECURSIVE SumSeq(_)
SumSeq(s) == IF s = <<>> THEN 0 ELSE Head(s) + SumSeq(Tail(s))

\* the non-silent elements of s, in order
Real(s) == SelectSeq(s, LAMBDA x : x # 0)

\* --------------------------------------------------------- ring buffers
\* HeapRb::<f32>::new(fft_size * 8), for MicCapture and for the viz buffer
VizCap == fftSize * RbFactor
\* HeapRb::<f32>::new(OUT_SAMPLE_RATE as usize * 2)
AudioCap == OutRate * AudioSeconds

\* variant: a push that overwrites the oldest element of a full buffer
PushOverwrite(rb, cap, s) ==
    IF Len(rb) < cap THEN Append(rb, s) ELSE Append(Tail(rb), s)

\* HeapProducer::push: Ok and appended when there is room, Err(s) and the
\* buffer untouched when it is full.
TryPush(rb, cap, s) == IF Len(rb) < cap THEN Append(rb, s) ELSE rb

\* variant: a pop that hands out the newest element
PopNewest(rb) == rb[Len(rb)]

\* HeapConsumer::pop on a non-empty buffer returns the oldest element.
PopVal(rb) == Head(rb)

\* ------------------------------------------------------- sliding window
\* variant: a full window keeps its old content and loses the new sample
SlideInKeepOld(w, s, size) == IF Len(w) >= size THEN w ELSE Append(w, s)

\* window.push_back(s); if window.len() > size { window.pop_front(); }
SlideIn(w, s, size) ==
    LET w1 == Append(w, s) IN IF Len(w1) > size THEN Tail(w1) ELSE w1

\* out.clear(); out.extend(window); while out.len() < size { out.push(0.0) }
CopyOut(w, size) == w \o Zeros(Max(0, size - Len(w)))

\* ------------------------------------------------------- capture callback
\* the interleaved frame the device delivers for the k-th capture instant
Frame(k, c) ==
    [i \in 1..c |-> IF c = 1 THEN k ELSE IF i = 1 THEN k - 1
                    ELSE IF i = c THEN k + 1 ELSE k]

\* chunk.iter().sum::<f32>() / channels as f32
Mono(chunk, c) == SumSeq(chunk) \div c

\* the device hands the callback a buffer of n frames
MicCallbackStart ==
    /\ mode = "mic"
    /\ cbData = <<>>
    /\ \E n \in 1..MaxFrames :
        /\ captured + n <= MaxCaptured
        /\ cbData' = [j \in 1..n |-> Frame(captured + j, channels)]
        /\ captured' = captured + n
    /\ UNCHANGED <<cfgVars, anVars, micRb, micProduced, micPushed, urlVars, rdVars, wavVars>>

\* one iteration of `for chunk in data.chunks(channels)`
MicCallbackFrame ==
    /\ mode = "mic"
    /\ cbData # <<>>
    /\ LET mono == Mono(Head(cbData), channels) IN
        /\ micRb' = TryPush(micRb, VizCap, mono)
        /\ micProduced' = Append(micProduced, mono)
        /\ micPushed' = IF Len(micRb) < VizCap THEN Append(micPushed, mono)
                        ELSE micPushed
    /\ cbData' = Tail(cbData)
    /\ UNCHANGED <<cfgVars, anVars, captured, urlVars, rdVars, wavVars>>

\* ------------------------------------------------- MicCapture::read_window
MicReadBegin ==
    /\ mode = "mic"
    /\ rd.pc = "idle"
    /\ reads < MaxReads
    /\ \E size \in 0..MaxSize : rd' = [pc |-> "drain", size |-> size]
    /\ UNCHANGED <<cfgVars, anVars, micVars, urlVars, wavVars,
                   window, out, popped, reads, pushedAtRead, producedAtRead>>

\* `while let Some(s) = self.consumer.pop()`: one sample popped
MicReadPop ==
    /\ mode = "mic"
    /\ rd.pc = "drain"
    /\ micRb # <<>>
    /\ window' = SlideIn(window, PopVal(micRb), rd.size)
    /\ popped' = Append(popped, PopVal(micRb))
    /\ micRb' = Tail(micRb)
    /\ UNCHANGED <<cfgVars, anVars, cbData, captured, micProduced, micPushed, urlVars,
                   wavVars, out, rd, reads, pushedAtRead, producedAtRead>>

\* pop returned None: copy the window out, pad, return
MicReadEnd ==
    /\ mode = "mic"
    /\ rd.pc = "drain"
    /\ micRb = <<>>
    /\ out' = CopyOut(window, rd.size)
    /\ rd' = [rd EXCEPT !.pc = "idle"]
    /\ reads' = reads + 1
    /\ pushedAtRead' = micPushed
    /\ producedAtRead' = micProduced
    /\ UNCHANGED <<cfgVars, anVars, micVars, urlVars, wavVars, window, popped>>

\* ------------------------------------------------- stream.rs run_pipeline
\* ffmpeg's stdout: headerless f32le, 4 bytes per sample.  The k-th sample
\* is the one whose bit pattern is the integer k.
LeBytes(k) == <<k % 256, (k \div 256) % 256, (k \div 65536) % 256,
                (k \div 16777216) % 256>>

RECURSIVE DecoderBytes(_)
DecoderBytes(n) == IF n = 0 THEN <<>> ELSE DecoderBytes(n - 1) \o LeBytes(n)

\* f32::from_le_bytes(bytes), on bit patterns
FromLeBytes(b) == b[1] + 256 * b[2] + 65536 * b[3] + 16777216 * b[4]

\* let downloaded = download(url)?;
PipelineDownload ==
    /\ mode = "url"
    /\ pl.pc = "download"
    /\ \E ok \in BOOLEAN :
        pl' = [pl EXCEPT !.pc = IF ok THEN "spawn" ELSE "failed"]
    /\ UNCHANGED <<cfgVars, anVars, micVars, rdVars, wavVars,
                   audioRb, vizRb, audioPushed, audioPopped, output, fwd>>

\* Command::new("ffmpeg") ... .spawn().context(..)?
PipelineSpawn ==
    /\ mode = "url"
    /\ pl.pc = "spawn"
    /\ \E ok \in BOOLEAN :
        pl' = [pl EXCEPT !.pc = IF ok THEN "read" ELSE "failed"]
    /\ UNCHANGED <<cfgVars, anVars, micVars, rdVars, wavVars,
                   audioRb, vizRb, audioPushed, audioPopped, output, fwd>>

\* the decoder's whole output when it wrote n full samples and then k bytes
\* of the next one before its stream ended
DecoderOutput(n, k) == DecoderBytes(n) \o SubSeq(LeBytes(n + 1), 1, k)

\* variant: a read loop that treats end of stream as a reason to retry
PipelineReadRetry ==
    /\ mode = "url"
    /\ pl.pc = "read"
    /\ \E n \in 0..MaxStream, k \in 0..3 :
        LET bytes == DecoderOutput(n, k) IN
        /\ Len(bytes) >= pl.pos
        /\ IF pl.pos + 4 <= Len(bytes)
           THEN pl' = [pc |-> "push", pos |-> pl.pos + 4, slept |-> FALSE,
                       short |-> FALSE,
                       cur |-> FromLeBytes(SubSeq(bytes, pl.pos + 1, pl.pos + 4))]
           ELSE pl' = [pl EXCEPT !.pc = "read", !.short = Len(bytes) > pl.pos]
    /\ UNCHANGED <<cfgVars, anVars, micVars, rdVars, wavVars,
                   audioRb, vizRb, audioPushed, audioPopped, output, fwd>>

\* variant: a plain read that hands on the bytes it got, the missing ones 0
PipelineReadPartial ==
    /\ mode = "url"
    /\ pl.pc = "read"
    /\ \E n \in 0..MaxStream, k \in 0..3 :
        LET bytes == DecoderOutput(n, k) IN
        /\ Len(bytes) >= pl.pos
        /\ IF pl.pos + 4 <= Len(bytes)
           THEN pl' = [pc |-> "push", pos |-> pl.pos + 4, slept |-> FALSE,
                       short |-> FALSE,
                       cur |-> FromLeBytes(SubSeq(bytes, pl.pos + 1, pl.pos + 4))]
           ELSE IF Len(bytes) > pl.pos
           THEN pl' = [pc |-> "push", pos |-> pl.pos + 4, slept |-> FALSE,
                       short |-> TRUE,
                       cur |-> FromLeBytes(SubSeq(bytes, pl.pos + 1, Len(bytes))
                                           \o Zeros(pl.pos + 4 - Len(bytes)))]
           ELSE pl' = [pl EXCEPT !.pc = "ended"]
    /\ UNCHANGED <<cfgVars, anVars, micVars, rdVars, wavVars,
                   audioRb, vizRb, audioPushed, audioPopped, output, fwd>>

\* match reader.read_exact(&mut bytes): Ok(()) with the next 4 bytes, or
\* Err(_) => break when fewer than 4 bytes are left before the end of the
\* stream (ffmpeg finished or died; `short`: some bytes of a sample were
\* left), followed by ffmpeg.wait(), remove_file, "stream ended", Ok(())
PipelineRead ==
    /\ mode = "url"
    /\ pl.pc = "read"
    /\ \E n \in 0..MaxStream, k \in 0..3 :
        LET bytes == DecoderOutput(n, k) IN
        /\ Len(bytes) >= pl.pos
        /\ IF pl.pos + 4 <= Len(bytes)
           THEN pl' = [pc |-> "push", pos |-> pl.pos + 4, slept |-> FALSE,
                       short |-> FALSE,
                       cur |-> FromLeBytes(SubSeq(bytes, pl.pos + 1, pl.pos + 4))]
           ELSE pl' = [pl EXCEPT !.pc = "ended", !.short = Len(bytes) > pl.pos]
    /\ UNCHANGED <<cfgVars, anVars, micVars, rdVars, wavVars,
                   audioRb, vizRb, audioPushed, audioPopped, output, fwd>>

\* variant: a pipeline that drops the sample when the buffer is full
PipelinePushDropping ==
    /\ mode = "url"
    /\ pl.pc = "push"
    /\ audioRb' = TryPush(audioRb, AudioCap, pl.cur)
    /\ audioPushed' = IF Len(audioRb) < AudioCap
                      THEN Append(audioPushed, pl.cur) ELSE audioPushed
    /\ pl' = [pl EXCEPT !.pc = "read"]
    /\ UNCHANGED <<cfgVars, anVars, micVars, rdVars, wavVars,
                   vizRb, audioPopped, output, fwd>>

\* if audio_prod.push(s).is_ok() { break; }  else go to sleep
PipelinePush ==
    /\ mode = "url"
    /\ pl.pc = "push"
    /\ audioRb' = TryPush(audioRb, AudioCap, pl.cur)
    /\ audioPushed' = IF Len(audioRb) < AudioCap
                      THEN Append(audioPushed, pl.cur) ELSE audioPushed
    /\ pl' = IF Len(audioRb) < AudioCap THEN [pl EXCEPT !.pc = "read"]
             ELSE [pl EXCEPT !.pc = "sleep", !.slept = TRUE]
    /\ UNCHANGED <<cfgVars, anVars, micVars, rdVars, wavVars,
                   vizRb, audioPopped, output, fwd>>

\* variant: after the sleep the loop reads the next sample instead of
\* retrying the refused one
PipelineWakeSkipping ==
    /\ mode = "url"
    /\ pl.pc = "sleep"
    /\ pl' = [pl EXCEPT !.pc = "read"]
    /\ UNCHANGED <<cfgVars, anVars, micVars, rdVars, wavVars,
                   audioRb, vizRb, audioPushed, audioPopped, output, fwd>>

\* thread::sleep(Duration::from_micros(500)) returns; retry the same sample
PipelineWake ==
    /\ mode = "url"
    /\ pl.pc = "sleep"
    /\ pl' = [pl EXCEPT !.pc = "push"]
    /\ UNCHANGED <<cfgVars, anVars, micVars, rdVars, wavVars,
                   audioRb, vizRb, audioPushed, audioPopped, output, fwd>>

\* ------------------------------------------------------ RingSource::next
\* variant: the viz buffer gets the sample that is now at the head
\* of the audio ring instead of the one just popped
RingSourceNextPeek ==
    /\ mode = "url"
    /\ startResult = "Ok"
    /\ (Len(output) < MaxNext \/ audioRb # <<>>)
    /\ LET s == IF audioRb = <<>> THEN 0 ELSE PopVal(audioRb)
           v == IF Len(audioRb) > 1 THEN audioRb[2] ELSE 0 IN
        /\ audioRb' = IF audioRb = <<>> THEN audioRb ELSE Tail(audioRb)
        /\ audioPopped' = IF audioRb = <<>> THEN audioPopped
                          ELSE Append(audioPopped, s)
        /\ vizRb' = TryPush(vizRb, VizCap, v)
        /\ fwd' = IF Len(vizRb) < VizCap
                  THEN Append(fwd, Len(output) + 1)
                  ELSE fwd
        /\ output' = Append(output, s)
    /\ UNCHANGED <<cfgVars, anVars, micVars, rdVars, wavVars, pl, audioPushed>>

\* variant: a source that waits for the decoder instead of playing silence
RingSourceNextBlocking ==
    /\ mode = "url"
    /\ startResult = "Ok"
    /\ audioRb # <<>>
    /\ LET s == PopVal(audioRb) IN
        /\ audioRb' = Tail(audioRb)
        /\ audioPopped' = Append(audioPopped, s)
        /\ vizRb' = TryPush(vizRb, VizCap, s)
        /\ fwd' = IF Len(vizRb) < VizCap
                  THEN Append(fwd, Len(output) + 1)
                  ELSE fwd
        /\ output' = Append(output, s)
    /\ UNCHANGED <<cfgVars, anVars, micVars, rdVars, wavVars, pl, audioPushed>>

\* let s = self.consumer.pop().unwrap_or(0.0);
\* let _ = self.viz_prod.push(s); Some(s)
RingSourceNext ==
    /\ mode = "url"
    /\ startResult = "Ok"
    /\ (Len(output) < MaxNext \/ audioRb # <<>>)
    /\ LET s == IF audioRb = <<>> THEN 0 ELSE PopVal(audioRb) IN
        /\ audioRb' = IF audioRb = <<>> THEN audioRb ELSE Tail(audioRb)
        /\ audioPopped' = IF audioRb = <<>> THEN audioPopped
                          ELSE Append(audioPopped, s)
        /\ vizRb' = TryPush(vizRb, VizCap, s)
        /\ fwd' = IF Len(vizRb) < VizCap
                  THEN Append(fwd, Len(output) + 1)
                  ELSE fwd
        /\ output' = Append(output, s)
    /\ UNCHANGED <<cfgVars, anVars, micVars, rdVars, wavVars, pl, audioPushed>>

\* -------------------------------------------------- UrlStream::read_window
UrlReadBegin ==
    /\ mode = "url"
    /\ startResult = "Ok"
    /\ rd.pc = "idle"
    /\ reads < MaxReads
    /\ \E size \in 0..MaxSize : rd' = [pc |-> "drain", size |-> size]
    /\ UNCHANGED <<cfgVars, anVars, micVars, urlVars, wavVars,
                   window, out, popped, reads, pushedAtRead, producedAtRead>>

\* `while let Some(s) = self.consumer.pop()`: one sample popped
UrlReadPop ==
    /\ mode = "url"
    /\ rd.pc = "drain"
    /\ vizRb # <<>>
    /\ window' = SlideIn(window, PopVal(vizRb), rd.size)
    /\ popped' = Append(popped, PopVal(vizRb))
    /\ vizRb' = Tail(vizRb)
    /\ UNCHANGED <<cfgVars, anVars, micVars, wavVars, audioRb, pl, audioPushed,
                   audioPopped, output, fwd,
                   out, rd, reads, pushedAtRead, producedAtRead>>

\* pop returned None: copy the window out, pad, return
UrlReadEnd ==
    /\ mode = "url"
    /\ rd.pc = "drain"
    /\ vizRb = <<>>
    /\ out' = CopyOut(window, rd.size)
    /\ rd' = [rd EXCEPT !.pc = "idle"]
    /\ reads' = reads + 1
    /\ UNCHANGED <<cfgVars, anVars, micVars, urlVars, wavVars, window, popped,
                   pushedAtRead, producedAtRead>>

\* ------------------------------------------------ wav.rs / player.rs
\* sample rates of the modelled files: ordinary ones, and one so high that
\* every modelled file lasts less than the duration floor
WavRates == (1..MaxWavRate) \cup {DurFloorDen * MaxWavLen + 1}

\* bits_per_sample values of the modelled files
BitDepths == {8, 16, 24}

\* a WAV file as load_wav sees it: whether WavReader::open succeeds, the
\* header fields, the number of interleaved samples in the data chunk and
\* the position of the first sample whose decoding fails (0: none)
WavFiles ==
    {f \in [opens : BOOLEAN, format : {"Int", "Float"},
            channels : 1..MaxWavChannels, bits : BitDepths,
            rate : WavRates, raw : 0..MaxWavLen, errAt : 0..MaxWavLen] :
        f.errAt <= f.raw}

\* the j-th interleaved i16 sample of the data chunk
RawSample(j) == j

\* `s as f32 / i16::MAX as f32` and the downmix `frame[0]` or
\* `(frame[0] + frame[1]) * 0.5`, in units of 1 / (2 * i16::MAX)
FrameToMono(frame) ==
    IF Len(frame) = 1 THEN 2 * frame[1] ELSE frame[1] + frame[2]

\* the loop `for s in reader.samples::<i16>()` from sample j on
RECURSIVE ReadFrames(_, _, _, _)
ReadFrames(f, j, frame, mono) ==
    IF j > f.raw THEN [ok |-> TRUE, samples_mono |-> mono]
    ELSE IF j = f.errAt THEN [ok |-> FALSE, samples_mono |-> <<>>]
    ELSE LET fr == Append(frame, RawSample(j)) IN
         IF Len(fr) = f.channels
         THEN ReadFrames(f, j + 1, <<>>, Append(mono, FrameToMono(fr)))
         ELSE ReadFrames(f, j + 1, fr, mono)

\* variant: a loader that reads any bit depth as 16-bit
LoadWavAnyDepth(f) ==
    IF ~f.opens THEN [ok |-> FALSE, samples_mono |-> <<>>]
    ELSE IF f.format # "Int" THEN [ok |-> FALSE, samples_mono |-> <<>>]
    ELSE IF f.channels # 1 /\ f.channels # 2
    THEN [ok |-> FALSE, samples_mono |-> <<>>]
    ELSE ReadFrames(f, 1, <<>>, <<>>)

\* AudioData::load_wav: Ok(AudioData) or Err
LoadWav(f) ==
    IF ~f.opens THEN [ok |-> FALSE, samples_mono |-> <<>>]
    ELSE IF f.format # "Int" THEN [ok |-> FALSE, samples_mono |-> <<>>]
    ELSE IF f.channels # 1 /\ f.channels # 2
    THEN [ok |-> FALSE, samples_mono |-> <<>>]
    ELSE IF f.bits # 16 THEN [ok |-> FALSE, samples_mono |-> <<>>]
    ELSE ReadFrames(f, 1, <<>>, <<>>)

\* main.rs: AudioData::load_wav(&file).expect(..), AudioPlayer::start(&file)
WavLoad ==
    /\ mode = "wav"
    /\ startResult = "Pending"
    /\ LET r == LoadWav(wavFile) IN
        /\ startResult' = IF r.ok THEN "Ok" ELSE "Err"
        /\ samples_mono' = r.samples_mono
        /\ sample_rate' = IF r.ok THEN wavFile.rate ELSE sample_rate
    /\ UNCHANGED <<mode, fftSize, channels, wavFile,
                   micVars, urlVars, rdVars, wavVars, anVars>>

\* AudioPlayer::elapsed_secs advances with the wall clock
WavTick ==
    /\ mode = "wav"
    /\ startResult = "Ok"
    /\ ~panicked
    /\ ticks < MaxTicks
    /\ ticks' = ticks + 1
    /\ UNCHANGED <<cfgVars, anVars, micVars, urlVars, rdVars, wavSize, wavT, panicked>>

\* center = (t_sec.rem_euclid(duration_sec.max(0.000_1)) * sample_rate) as
\* isize, for t_sec = tk / TimeDen, in exact arithmetic
Center(tk, len, sr) ==
    IF len * DurFloorDen >= sr
    THEN ((tk * sr) % (len * TimeDen)) \div TimeDen
    ELSE (((tk * DurFloorDen) % TimeDen) * sr) \div (TimeDen * DurFloorDen)

\* variant: an index clamped to the ends of the history instead of wrapped
WindowIndexClamp(center, n, i, len) ==
    Max(0, Min(len - 1, center - (n \div 2) + i))

\* idx = (center - half + i).rem_euclid(len), i counted from 0
WindowIndex(center, n, i, len) == (center - (n \div 2) + i) % len

\* AudioData::window_at_time(player.elapsed_secs(), n, out)
\* rem_euclid by len = 0 panics on the first iteration of the loop
WavFillWindow ==
    /\ mode = "wav"
    /\ startResult = "Ok"
    /\ ~panicked
    /\ \E n \in 0..MaxWavN :
        LET len == Len(samples_mono)
            center == Center(ticks, len, sample_rate) IN
        /\ wavSize' = n
        /\ wavT' = ticks
        /\ IF len = 0 /\ n > 0
           THEN /\ panicked' = TRUE
                /\ out' = <<>>
           ELSE /\ panicked' = FALSE
                /\ out' = [i \in 1..n |->
                            samples_mono[WindowIndex(center, n, i - 1, len) + 1]]
    /\ UNCHANGED <<cfgVars, anVars, micVars, urlVars, ticks,
                   window, rd, popped, reads, pushedAtRead, producedAtRead>>

\* ------------------------------------------------ analysis/analyzer.rs
\* Numbers of the analyzer are fixed-point: the real x is the integer
\* x * Unit, and every operation truncates its result to that grid.
\* Frequencies and sample rates are whole Hz.

RECURSIVE Pow(_, _)
Pow(x, k) == IF k = 0 THEN 1 ELSE x * Pow(x, k - 1)

\* y^k <= x for y >= 1, by k divisions
RECURSIVE PowFits(_, _, _)
PowFits(y, k, x) == IF k = 0 THEN x >= 1 ELSE PowFits(y, k - 1, x \div y)

\* largest y in lo..hi with y^k <= x
RECURSIVE RootBetween(_, _, _, _)
RootBetween(k, x, lo, hi) ==
    IF lo >= hi THEN lo
    ELSE LET mid == (lo + hi + 1) \div 2 IN
         IF PowFits(mid, k, x) THEN RootBetween(k, x, mid, hi)
         ELSE RootBetween(k, x, lo, mid - 1)

\* f32::sqrt of a fixed-point number
Sqrt(v) == RootBetween(2, v * Unit, 0, v + Unit)

\* sample rates the analyzer is built with
AnRates == {8000, 44100, 48000, 192000}

\* f_max = (sample_rate as f32 * 0.5).min(18_000.0), in Hz
FMax(sr) == Min(sr \div 2, FMaxCap)

\* f_min * r.powf(b / bars) with r = f_max / f_min, in Hz: powf(0) is 1,
\* powf(1) is r, and between them the bars-th root of r^b, truncated
BandEdge(sr, bars, b) ==
    LET r == FMax(sr) \div FMin IN
    IF b = 0 THEN FMin
    ELSE IF b = bars THEN FMin * r
    ELSE FMin * RootBetween(bars, Pow(r, b), 1, r)

\* variant: a range that is left empty when it starts and ends in one bin
FreqRangeToBinRangeNoWiden(sr, size, f0, f1) ==
    LET half == size \div 2
        a0 == Max(0, (f0 * size) \div sr)
        a1 == Max(0, -((-(f1 * size)) \div sr))
        i0 == IF a0 >= half THEN half - 1 ELSE a0
        i1 == IF a1 > half THEN half ELSE a1
    IN <<i0, i1>>

\* round(f * size / sr), halves away from zero as f32::round
RoundBin(sr, size, f) ==
    IF f >= 0 THEN (2 * f * size + sr) \div (2 * sr)
    ELSE 0 - ((2 * (0 - f) * size + sr) \div (2 * sr))

\* variant: both ends of the range rounded to the nearest bin
FreqRangeToBinRangeRound(sr, size, f0, f1) ==
    LET half == size \div 2
        a0 == Max(0, RoundBin(sr, size, f0))
        a1 == Max(0, RoundBin(sr, size, f1))
        i0 == IF a0 >= half THEN half - 1 ELSE a0
        i1 == IF a1 > half THEN half ELSE a1
    IN <<i0, IF i1 <= i0 THEN Min(i0 + 1, half) ELSE i1>>

\* variant: a range from the bin above f0 to the bin below f1
FreqRangeToBinRangeInner(sr, size, f0, f1) ==
    LET half == size \div 2
        a0 == Max(0, -((-(f0 * size)) \div sr))
        a1 == Max(0, (f1 * size) \div sr)
        i0 == IF a0 >= half THEN half - 1 ELSE a0
        i1 == IF a1 > half THEN half ELSE a1
    IN <<i0, IF i1 <= i0 THEN Min(i0 + 1, half) ELSE i1>>

\* Analyzer::freq_range_to_bin_range: i0 = floor(f0 * n / sr),
\* i1 = ceil(f1 * n / sr), both raised to 0, i0 lowered to half - 1,
\* i1 lowered to half, and an empty range widened to one bin.
\* `half - 1` needs fft_size >= 2.
FreqRangeToBinRange(sr, size, f0, f1) ==
    LET half == size \div 2
        a0 == Max(0, (f0 * size) \div sr)
        a1 == Max(0, -((-(f1 * size)) \div sr))
        i0 == IF a0 >= half THEN half - 1 ELSE a0
        i1 == IF a1 > half THEN half ELSE a1
    IN <<i0, IF i1 <= i0 THEN Min(i0 + 1, half) ELSE i1>>

\* the bin range of band b (from 0) of analyze's band loop
BandRange(sr, size, bars, b) ==
    FreqRangeToBinRange(sr, size, BandEdge(sr, bars, b),
                        BandEdge(sr, bars, b + 1))

\* 4 * hann[n] for fft_size = 4: 0.5 * (1 - cos(2 pi n / 3)), where
\* 2 * cos(2 pi n / 3) is 2, -1, -1, 2 for n = 0..3
HannQuarters(n) == 2 - <<2, -1, -1, 2>>[n + 1]

\* fft_in: window[i] * hann[i], in quarters of the fixed-point unit
FftIn(w) == [i \in 1..AnFft |-> w[i] * HannQuarters(i - 1)]

\* cos and sin of 2 pi m / 4
Cos4(m) == <<1, 0, -1, 0>>[(m % 4) + 1]
Sin4(m) == <<0, 1, 0, -1>>[(m % 4) + 1]

\* fft.process: bin k of the forward transform of x, real and imaginary
FftRe(x, k) == SumSeq([i \in 1..AnFft |-> x[i] * Cos4(k * (i - 1))])
FftIm(x, k) == 0 - SumSeq([i \in 1..AnFft |-> x[i] * Sin4(k * (i - 1))])

\* (c.re * c.re + c.im * c.im).sqrt() * norm, norm = 1 / (fft_size * 0.5)
Magnitudes(w) ==
    LET x == FftIn(w) IN
    [i \in 1..(AnFft \div 2) |->
        LET re == FftRe(x, i - 1)
            im == FftIm(x, i - 1)
            sq == re * re + im * im
        IN RootBetween(2, sq, 0, Max(re, 0 - re) + Max(im, 0 - im))
               \div (4 * (AnFft \div 2))]

\* sum / count over bins i0 .. i1 - 1 (from 0), then sqrt
BinEnergy(mags, range) ==
    LET count == range[2] - range[1]
        sum == SumSeq([i \in 1..count |-> mags[range[1] + i]])
    IN Sqrt(IF count > 0 THEN sum \div count ELSE 0)

\* alpha * d for alpha = pct / 100, truncated toward zero
Scaled(pct, d) ==
    IF d >= 0 THEN (pct * d) \div AlphaDen ELSE 0 - ((pct * (0 - d)) \div AlphaDen)

\* variant: smoothing with the difference taken the wrong way round
SmoothAway(acc, x, pct) == acc + Scaled(pct, acc - x)

\* acc += alpha * (x - acc)
Smooth(acc, x, pct) == acc + Scaled(pct, x - acc)

\* windows handed to analyze: silence, and every window whose samples
\* are all +-1.0 or all +-0.5
Windows ==
    {Zeros(AnFft)} \cup [1..AnFft -> {0 - Unit, Unit}]
                  \cup [1..AnFft -> {0 - (Unit \div 2), Unit \div 2}]

\* main.rs update, from the filled scratch_window on:
\* frame = analyzer.analyze(&scratch_window, source.sample_rate())
Analyze ==
    /\ analyzed < MaxAnalyze
    /\ \E w \in Windows :
       \E mags \in {Magnitudes(w)} :
       \E bass_raw \in {BinEnergy(mags, FreqRangeToBinRange(anRate, AnFft,
                                                           BassLo, BassHi))} :
       \E bands \in {[b \in 1..Bars |->
                       BinEnergy(mags, BandRange(anRate, AnFft, Bars, b - 1))]} :
       \E smoothed \in {[b \in 1..Bars |->
                          Smooth(smoothed_bands[b], bands[b], AlphaBands)]} :
        /\ scratch_window' = w
        /\ magnitues' = mags
        /\ bass_fast' = Smooth(bass_fast, bass_raw, AlphaBassFast)
        /\ bass_smooth' = Smooth(bass_smooth, bass_raw, AlphaBassSlow)
        /\ smoothed_bands' = smoothed
        /\ latestFrame' = [bands |-> smoothed,
                           bass_fast |-> bass_fast',
                           bass_smooth |-> bass_smooth']
    /\ analyzed' = analyzed + 1
    /\ UNCHANGED <<cfgVars, micVars, urlVars, rdVars, wavVars,
                   anRate, binProbe, bandProbe>>

\* transform sizes and frequencies freq_range_to_bin_range is probed with
ProbeSizes == {2, AnFft, 1024, 2048}
ProbeFreqs(sr) ==
    {0 - FMin, 0, 1, FMin, BassHi, sr \div 8 - 1, sr \div 8, sr \div 8 + 1,
     sr \div 2 - 1, sr \div 2, sr}

\* one call of freq_range_to_bin_range
BinQuery ==
    /\ binProbe = <<>> /\ bandProbe = <<>>
    /\ \E sr \in AnRates, size \in ProbeSizes :
       \E f0, f1 \in ProbeFreqs(sr) :
        binProbe' = [sr |-> sr, size |-> size, f0 |-> f0, f1 |-> f1,
                     range |-> FreqRangeToBinRange(sr, size, f0, f1)]
    /\ UNCHANGED <<bandProbe>>
    /\ UNCHANGED <<cfgVars, micVars, urlVars, rdVars, wavVars, anRate,
                   magnitues, smoothed_bands, bass_fast, bass_smooth,
                   scratch_window, latestFrame, analyzed>>

\* the band loop of analyze for one sample rate, size and bar count:
\* the bin range of every band, in band order
BandQuery ==
    /\ binProbe = <<>> /\ bandProbe = <<>>
    /\ \E sr \in AnRates, size \in ProbeSizes, bars \in 1..Bars :
        bandProbe' = [sr |-> sr, size |-> size, bars |-> bars,
                      ranges |-> [b \in 1..bars |->
                                    BandRange(sr, size, bars, b - 1)]]
    /\ UNCHANGED <<binProbe>>
    /\ UNCHANGED <<cfgVars, micVars, urlVars, rdVars, wavVars, anRate,
                   magnitues, smoothed_bands, bass_fast, bass_smooth,
                   scratch_window, latestFrame, analyzed>>

\* ------------------------------------------------------------------ Init
\* the state right after MicCapture::start returned Ok, after
\* UrlStream::start returned, or before AudioData::load_wav is called on
\* the file of the command line.  UrlStream::start returns Err only when
\* OutputStream::try_default or Sink::try_new fails, before the pipeline
\* thread is spawned; in every other case it spawns the thread and returns
\* Ok without waiting for it.
\* Analyzer::new(sample_rate, FFT_SIZE, BARS), no call made yet
AnalyzerNew ==
    /\ magnitues = Zeros(AnFft \div 2)
    /\ smoothed_bands = Zeros(Bars)
    /\ bass_fast = 0 /\ bass_smooth = 0
    /\ scratch_window = <<>>
    /\ latestFrame = <<>>
    /\ analyzed = 0
    /\ binProbe = <<>> /\ bandProbe = <<>>

Init ==
    /\ mode \in {"mic", "url", "wav"}
    /\ fftSize \in (IF mode = "wav" THEN {1} ELSE 1..MaxFft)
    /\ channels \in (IF mode = "mic" THEN 1..MaxChannels ELSE {1})
    /\ startResult \in (CASE mode = "url" -> {"Ok", "Err"}
                           [] mode = "wav" -> {"Pending"}
                           [] OTHER -> {"Ok"})
    /\ wavFile \in (IF mode = "wav" THEN WavFiles
                    ELSE {[opens |-> FALSE, format |-> "Int", channels |-> 1,
                           bits |-> 16, rate |-> 1, raw |-> 0, errAt |-> 0]})
    /\ samples_mono = <<>>
    /\ sample_rate = 1
    /\ micRb = <<>> /\ cbData = <<>> /\ captured = 0
    /\ micProduced = <<>> /\ micPushed = <<>>
    /\ audioRb = <<>> /\ vizRb = <<>>
    /\ pl = [pc |-> IF startResult = "Ok" THEN "download" ELSE "unspawned",
             pos |-> 0, cur |-> 0, slept |-> FALSE, short |-> FALSE]
    /\ audioPushed = <<>> /\ audioPopped = <<>> /\ output = <<>> /\ fwd = <<>>
    /\ window = (IF mode = "wav" THEN <<>> ELSE Zeros(fftSize))
    /\ out = <<>>
    /\ rd = [pc |-> "idle", size |-> 0]
    /\ popped = <<>> /\ reads = 0
    /\ pushedAtRead = <<>> /\ producedAtRead = <<>>
    /\ ticks = 0 /\ wavSize = -1 /\ wavT = 0 /\ panicked = FALSE
    /\ anRate = (IF mode = "wav" THEN wavFile.rate ELSE 44100)
    /\ AnalyzerNew

NextMic ==
    \/ MicCallbackStart
    \/ MicCallbackFrame
    \/ MicReadBegin
    \/ MicReadPop
    \/ MicReadEnd

NextUrl ==
    \/ PipelineDownload
    \/ PipelineSpawn
    \/ PipelineRead
    \/ PipelinePush
    \/ PipelineWake
    \/ RingSourceNext
    \/ UrlReadBegin
    \/ UrlReadPop
    \/ UrlReadEnd

NextWav ==
    \/ WavLoad
    \/ WavTick
    \/ WavFillWindow

Next == NextMic \/ NextUrl \/ NextWav

\* the program with any of its three sources
Spec == Init /\ [][Next]_vars

\* the program started in one mode
InitMic == Init /\ mode = "mic"
SpecMic == InitMic /\ [][NextMic]_vars

InitUrl == Init /\ mode = "url"
SpecUrl == InitUrl /\ [][NextUrl]_vars

InitWav == Init /\ mode = "wav"
SpecWav == InitWav /\ [][NextWav]_vars

\* every variable of the audio sources at rest
SourcesIdle ==
    /\ mode = "mic" /\ fftSize = 1 /\ channels = 1 /\ startResult = "Ok"
    /\ wavFile = [opens |-> FALSE, format |-> "Int", channels |-> 1,
                  bits |-> 16, rate |-> 1, raw |-> 0, errAt |-> 0]
    /\ samples_mono = <<>> /\ sample_rate = 1
    /\ micRb = <<>> /\ cbData = <<>> /\ captured = 0
    /\ micProduced = <<>> /\ micPushed = <<>>
    /\ audioRb = <<>> /\ vizRb = <<>>
    /\ pl = [pc |-> "unspawned", pos |-> 0, cur |-> 0, slept |-> FALSE, short |-> FALSE]
    /\ audioPushed = <<>> /\ audioPopped = <<>> /\ output = <<>> /\ fwd = <<>>
    /\ window = <<0>> /\ out = <<>>
    /\ rd = [pc |-> "idle", size |-> 0]
    /\ popped = <<>> /\ reads = 0
    /\ pushedAtRead = <<>> /\ producedAtRead = <<>>
    /\ ticks = 0 /\ wavSize = -1 /\ wavT = 0 /\ panicked = FALSE

\* the analyzer alone, built for any sample rate and handed any windows
InitAnalyzer == SourcesIdle /\ anRate \in AnRates /\ AnalyzerNew
SpecAnalyzer == InitAnalyzer /\ [][Analyze]_vars

\* the bin mapping alone, probed with any arguments
NextBins == BinQuery \/ BandQuery
InitBins == SourcesIdle /\ anRate = 44100 /\ AnalyzerNew
SpecBins == InitBins /\ [][NextBins]_vars

\* the stream adapter with its threads scheduled: the pipeline thread keeps
\* running, and the output device keeps pulling samples from the RingSource
\* for as long as UrlStream holds the OutputStream
PipelineFairness ==
    /\ WF_vars(PipelineDownload)
    /\ WF_vars(PipelineSpawn)
    /\ WF_vars(PipelineRead)
    /\ WF_vars(PipelinePush)
    /\ WF_vars(PipelineWake)

\* the decode thread and playback; read_window only pops the
\* visualization ring buffer, which neither of the two ever waits for
NextPlayback ==
    \/ PipelineDownload
    \/ PipelineSpawn
    \/ PipelineRead
    \/ PipelinePush
    \/ PipelineWake
    \/ RingSourceNext

FairSpecUrl ==
    /\ InitUrl /\ [][NextPlayback]_vars
    /\ PipelineFairness /\ WF_vars(RingSourceNext)

\* ------------------------------------- read_window beside a live producer
\* The same steps of the capture callback, of RingSource::next and of the
\* two read_window loops, without a limit on how many buffers the device
\* delivers and without the record of what was pushed and popped: the
\* producer can go on for ever and the state space stays finite.

\* the device hands the callback a buffer of n frames, any number of times
MicCallbackStartOngoing ==
    /\ mode = "mic"
    /\ cbData = <<>>
    /\ \E n \in 1..MaxFrames :
        cbData' = [j \in 1..n |-> Frame(captured + 1, channels)]
    /\ UNCHANGED <<cfgVars, anVars, micRb, captured, micProduced, micPushed,
                   urlVars, rdVars, wavVars>>

\* one iteration of `for chunk in data.chunks(channels)`
MicCallbackFrameOngoing ==
    /\ mode = "mic"
    /\ cbData # <<>>
    /\ micRb' = TryPush(micRb, VizCap, Mono(Head(cbData), channels))
    /\ cbData' = Tail(cbData)
    /\ UNCHANGED <<cfgVars, anVars, captured, micProduced, micPushed,
                   urlVars, rdVars, wavVars>>

\* RingSource::next while the decoder has delivered nothing: silence goes to
\* audio output and into the visualization ring buffer
RingSourceNextOngoing ==
    /\ mode = "url"
    /\ startResult = "Ok"
    /\ audioRb = <<>>
    /\ vizRb' = TryPush(vizRb, VizCap, 0)
    /\ UNCHANGED <<cfgVars, anVars, micVars, rdVars, wavVars,
                   audioRb, pl, audioPushed, audioPopped, output, fwd>>

\* read_window is called, any number of times
ReadBeginOngoing ==
    /\ mode \in {"mic", "url"}
    /\ startResult = "Ok"
    /\ rd.pc = "idle"
    /\ \E size \in 0..MaxSize : rd' = [pc |-> "drain", size |-> size]
    /\ UNCHANGED <<cfgVars, anVars, micVars, urlVars, wavVars,
                   window, out, popped, reads, pushedAtRead, producedAtRead>>

\* MicCapture::read_window, `while let Some(s) = self.consumer.pop()`
MicReadPopOngoing ==
    /\ mode = "mic"
    /\ rd.pc = "drain"
    /\ micRb # <<>>
    /\ window' = SlideIn(window, PopVal(micRb), rd.size)
    /\ micRb' = Tail(micRb)
    /\ UNCHANGED <<cfgVars, anVars, cbData, captured, micProduced, micPushed,
                   urlVars, wavVars,
                   out, rd, popped, reads, pushedAtRead, producedAtRead>>

\* UrlStream::read_window, `while let Some(s) = self.consumer.pop()`
UrlReadPopOngoing ==
    /\ mode = "url"
    /\ rd.pc = "drain"
    /\ vizRb # <<>>
    /\ window' = SlideIn(window, PopVal(vizRb), rd.size)
    /\ vizRb' = Tail(vizRb)
    /\ UNCHANGED <<cfgVars, anVars, micVars, wavVars,
                   audioRb, pl, audioPushed, audioPopped, output, fwd,
                   out, rd, popped, reads, pushedAtRead, producedAtRead>>

\* pop returned None: copy the window out, pad, return
ReadEndOngoing ==
    /\ mode \in {"mic", "url"}
    /\ rd.pc = "drain"
    /\ (IF mode = "mic" THEN micRb ELSE vizRb) = <<>>
    /\ out' = CopyOut(window, rd.size)
    /\ rd' = [rd EXCEPT !.pc = "idle"]
    /\ UNCHANGED <<cfgVars, anVars, micVars, urlVars, wavVars,
                   window, popped, reads, pushedAtRead, producedAtRead>>

NextOngoing ==
    \/ MicCallbackStartOngoing
    \/ MicCallbackFrameOngoing
    \/ RingSourceNextOngoing
    \/ ReadBeginOngoing
    \/ MicReadPopOngoing
    \/ UrlReadPopOngoing
    \/ ReadEndOngoing

InitOngoing == Init /\ mode \in {"mic", "url"} /\ startResult = "Ok"

\* every thread that can take a step is scheduled in the end: the audio
\* callback threads and the thread inside read_window.  Nothing makes the
\* caller call read_window.
FairSpecOngoing ==
    /\ InitOngoing /\ [][NextOngoing]_vars
    /\ WF_vars(MicCallbackStartOngoing)
    /\ WF_vars(MicCallbackFrameOngoing)
    /\ WF_vars(RingSourceNextOngoing)
    /\ WF_vars(MicReadPopOngoing)
    /\ WF_vars(UrlReadPopOngoing)
    /\ WF_vars(ReadEndOngoing)

\* ================================================================ claims
\* a read_window call of the capture or stream adapter has returned
ReadDone == mode \in {"mic", "url"} /\ rd.pc = "idle" /\ reads > 0

\* a window_at_time call of the file adapter has been made
WavCalled == mode = "wav" /\ wavSize >= 0

\* C1: fill_window is infallible and leaves exactly `size` samples in out,
\* for each adapter, in every state and for every `size`.
C1_FillWindowExactSize ==
    /\ ~panicked
    /\ ReadDone => Len(out) = rd.size
    /\ WavCalled => Len(out) = wavSize

\* C2: once at least `size` samples were popped, the window written to out
\* is exactly the last `size` samples popped so far, oldest first.
C2_WindowIsLastPopped ==
    (ReadDone /\ Len(popped) >= rd.size) => out = LastN(popped, rd.size)

\* C3: the first read_window on a fresh adapter, before any sample arrived,
\* returns `size` samples, all of them 0.
C3_StartupAllZero ==
    (ReadDone /\ reads = 1 /\ popped = <<>>) =>
        /\ Len(out) = rd.size
        /\ \A i \in 1..Len(out) : out[i] = 0

\* C4: while fewer than `size` samples have arrived, out is zero padding on
\* the left followed by the samples that arrived, oldest first; no padding
\* follows a real sample.
C4_PaddingOnLeft ==
    (ReadDone /\ Len(popped) < rd.size) =>
        out = Zeros(Len(out) - Len(popped)) \o popped

\* C5 (as stated): after every read_window the newest elements of the window
\* are the samples the producer produced last before the read, none twice.
C5_NewestProduced ==
    (ReadDone /\ mode = "mic") =>
        /\ Real(out) = LastN(producedAtRead, Len(Real(out)))
        /\ \A i, j \in 1..Len(Real(out)) : i < j => Real(out)[i] # Real(out)[j]

\* C5 (amended): after every read_window the real samples of the window are
\* the samples the ring buffer accepted last before the read saw it empty,
\* as many as the window holds, in order and none twice; samples produced
\* while the ring buffer was full never appear.
C5_NewestAccepted ==
    (ReadDone /\ mode = "mic") =>
        /\ Real(out) = LastN(pushedAtRead, Len(Real(out)))
        /\ Len(Real(out)) = Min(Len(pushedAtRead), Len(window))
        /\ \A i, j \in 1..Len(Real(out)) : i < j => Real(out)[i] # Real(out)[j]

\* a read that followed an overflow of the capture ring buffer
C5_Witness ==
    /\ ReadDone /\ mode = "mic"
    /\ Len(producedAtRead) > Len(pushedAtRead)
    /\ Real(out) # <<>>
    /\ Real(out) # LastN(producedAtRead, Len(Real(out)))

\* the samples the visualization ring buffer accepted, in order
VizPushed == [i \in 1..Len(fwd) |-> output[fwd[i]]]

\* the samples that entered the visualization ring buffer: drained or queued
VizEntered == popped \o vizRb

\* the first n samples of the decoder's stream
Decoded(n) ==
    [i \in 1..n |-> FromLeBytes(SubSeq(DecoderBytes(n), 4 * i - 3, 4 * i))]

\* C6: the samples the visualization ring buffer received are, in value and
\* in order, samples that the same next() calls handed to audio output.
C6_ForwardedEqualsOutput ==
    mode = "url" =>
        /\ Len(VizEntered) = Len(fwd)
        /\ \A i \in 1..Len(fwd) :
            /\ fwd[i] \in 1..Len(output)
            /\ VizEntered[i] = output[fwd[i]]
            /\ i > 1 => fwd[i - 1] < fwd[i]

\* a decoded sample was forwarded and drained after another output was dropped
C6_Witness ==
    /\ mode = "url"
    /\ Len(fwd) < Len(output)
    /\ \E i \in 1..Len(popped) : popped[i] # 0

C8_AudioIsPrefixOfDecoded ==
    mode = "url" =>
        LET entered == audioPopped \o audioRb
            inflight == IF pl.pc \in {"push", "sleep"} THEN 1 ELSE 0 IN
        /\ entered = Decoded(Len(entered))
        /\ entered = audioPushed
        /\ Len(entered) + inflight = pl.pos \div 4
        /\ inflight = 1 => pl.cur = Decoded(Len(entered) + 1)[Len(entered) + 1]

\* a sample that found the audio ring buffer full has entered it after a sleep
C8_Witness ==
    /\ mode = "url"
    /\ pl.pc = "read"
    /\ pl.slept
    /\ Len(audioPushed) = pl.pos \div 4
    /\ Len(audioPushed) > AudioCap

\* C9: a capture callback frame that finds the ring buffer full leaves it
\* unchanged, discards the sample and goes on to the next frame of the same
\* activation; the callback can always take its step.
C9_FullPushDiscards ==
    /\ [][(mode = "mic" /\ cbData # <<>> /\ cbData' # cbData
            /\ Len(micRb) = VizCap) =>
                /\ micRb' = micRb
                /\ micPushed' = micPushed
                /\ micProduced' =
                     Append(micProduced, Mono(Head(cbData), channels))
                /\ cbData' = Tail(cbData)]_vars
    /\ []((mode = "mic" /\ cbData # <<>>) => ENABLED MicCallbackFrame)

\* the callback dropped its latest sample and still has a frame to process
C9_Witness ==
    /\ mode = "mic"
    /\ cbData # <<>>
    /\ Len(micRb) = VizCap
    /\ micProduced # <<>>
    /\ micProduced[Len(micProduced)] # micRb[Len(micRb)]

\* C10: for each ring buffer the samples popped so far are a prefix of the
\* samples successfully pushed so far.
C10_Fifo ==
    /\ mode = "mic" => IsPrefix(popped, micPushed)
    /\ mode = "url" => /\ IsPrefix(audioPopped, audioPushed)
                       /\ IsPrefix(popped, VizPushed)

\* both stream ring buffers have been popped from while holding more
C10_Witness ==
    /\ mode = "url"
    /\ Len(audioPopped) >= 2 /\ audioRb # <<>>
    /\ Len(popped) >= 2 /\ vizRb # <<>>

\* C11: RingSource::next never blocks and never ends: it can always take
\* its step, whatever the two ring buffers hold, and the step returns one
\* sample: silence (0) when the audio ring buffer is empty, else the oldest
\* sample of that buffer, also when the visualization ring buffer is full.
C11_NextNeverBlocks ==
    /\ [][(mode = "url" /\ output' # output) =>
            output' = Append(output, IF audioRb = <<>> THEN 0
                                     ELSE Head(audioRb))]_vars
    /\ []((mode = "url" /\ startResult = "Ok" /\ Len(output) < MaxNext)
            => ENABLED RingSourceNext)

\* next() returned silence on an empty audio ring buffer and a decoded
\* sample while the visualization ring buffer was full
C11_Witness ==
    /\ mode = "url"
    /\ Len(vizRb) = VizCap
    /\ output[1] = 0
    /\ output[Len(output)] # 0
    /\ fwd[Len(fwd)] < Len(output)

\* C12: the decoder's stream is finite, and the pipeline thread that has
\* entered its read loop, with or without a sample in its sleep-and-retry
\* push, eventually reaches its end ("stream ended").
C12_PipelineTerminates ==
    (mode = "url" /\ pl.pc \in {"read", "push", "sleep"}) ~> (pl.pc = "ended")

\* the thread ended after the last sample of the stream had to be retried
C12_Witness ==
    /\ mode = "url"
    /\ pl.pc = "ended"
    /\ pl.slept
    /\ pl.pos = 4 * MaxStream

\* C13: when the remote fetch fails or the decoder cannot be spawned,
\* UrlStream::start has reported an error to its caller instead of
\* returning a running adapter, and the failed step is not retried.
C13_StartupFailureSurfaced ==
    /\ [][(mode = "url" /\ pl.pc = "failed") => pl' = pl]_vars
    /\ []((mode = "url" /\ pl.pc = "failed") => startResult = "Err")

\* C14: for an AudioData with zero samples, window_at_time(t, n, out)
\* completes without a failure for every t and n and leaves n samples in out.
C14_EmptyAudioHandled ==
    (WavCalled /\ samples_mono = <<>>) => (~panicked /\ Len(out) = wavSize)

\* the index window_at_time reads for element i of a window of n samples
\* around the sample index c, wrapped into a history of L samples
WrappedIndex(c, n, i, L) == (c - (n \div 2) + i) % L

\* the sample index at time (t mod duration) of the last call: floor(t * sr)
\* wrapped by the history length
CenterByDuration ==
    ((wavT * sample_rate) \div TimeDen) % Len(samples_mono)

\* the sample index at time (t mod 0.0001 s) of the last call
CenterByFloor ==
    (((wavT * DurFloorDen) % TimeDen) * sample_rate)
        \div (TimeDen * DurFloorDen)

\* C15 (as stated): for a non-empty history of L samples, every t and every
\* n, window_at_time writes exactly n samples, element i being
\* samples[(center - n/2 + i) mod L] with center the sample index at time
\* (t mod duration); every index lies in [0, L).
C15_WrapByDuration ==
    (WavCalled /\ samples_mono # <<>>) =>
        LET L == Len(samples_mono) IN
        /\ ~panicked
        /\ Len(out) = wavSize
        /\ \A i \in 0..(wavSize - 1) :
            /\ WrappedIndex(CenterByDuration, wavSize, i, L) \in 0..(L - 1)
            /\ out[i + 1] =
                 samples_mono[WrappedIndex(CenterByDuration, wavSize, i, L) + 1]

\* C15 (amended): as stated when the audio lasts at least 0.0001 s; for a
\* shorter non-empty history center is the sample index at time
\* (t mod 0.0001 s).
C15_WrapByFlooredDuration ==
    (WavCalled /\ samples_mono # <<>>) =>
        LET L == Len(samples_mono)
            c == IF L * DurFloorDen >= sample_rate
                 THEN CenterByDuration ELSE CenterByFloor IN
        /\ ~panicked
        /\ Len(out) = wavSize
        /\ \A i \in 0..(wavSize - 1) :
            /\ WrappedIndex(c, wavSize, i, L) \in 0..(L - 1)
            /\ out[i + 1] = samples_mono[WrappedIndex(c, wavSize, i, L) + 1]

\* a window longer than the history, asked for at a time beyond the
\* duration, that starts before the first sample
C15_Witness ==
    /\ WavCalled /\ ~panicked
    /\ Len(samples_mono) >= 2
    /\ Len(samples_mono) * DurFloorDen >= sample_rate
    /\ wavSize > Len(samples_mono)
    /\ wavT * sample_rate > Len(samples_mono) * TimeDen
    /\ CenterByDuration - (wavSize \div 2) < 0
    /\ out[1] # samples_mono[1]

\* the header of the file is one load_wav accepts
HeaderAccepted ==
    /\ wavFile.format = "Int"
    /\ wavFile.bits = 16
    /\ wavFile.channels \in {1, 2}

\* C16: load_wav returns an error and no AudioData whenever the sample
\* format is not integer, the bit depth is not 16, the channel count is
\* neither 1 nor 2, or a sample fails to decode part-way through; it returns
\* AudioData only for 16-bit integer mono or stereo input, and then with
\* one mono sample per complete frame.
C16_FormatGate ==
    (mode = "wav" /\ startResult # "Pending") =>
        /\ (~HeaderAccepted \/ wavFile.errAt > 0) =>
                (startResult = "Err" /\ samples_mono = <<>>)
        /\ startResult = "Ok" =>
            /\ HeaderAccepted
            /\ sample_rate = wavFile.rate
            /\ Len(samples_mono) = wavFile.raw \div wavFile.channels
            /\ \A k \in 1..Len(samples_mono) :
                samples_mono[k] =
                    IF wavFile.channels = 1 THEN 2 * RawSample(k)
                    ELSE RawSample(2 * k - 1) + RawSample(2 * k)

\* a stereo file with an accepted header whose decoding failed after its
\* first frame had been converted
C16_Witness ==
    /\ mode = "wav"
    /\ startResult = "Err"
    /\ wavFile.opens
    /\ HeaderAccepted
    /\ wavFile.channels = 2
    /\ wavFile.errAt > 2
    /\ samples_mono = <<>>

\* C17: after any sequence of analyze calls on windows of the transform
\* size, the returned frame has exactly bar_count band values, and every
\* band value and both bass scalars are non-negative.
C17_OutputShape ==
    analyzed > 0 =>
        /\ Len(scratch_window) = AnFft
        /\ Len(latestFrame.bands) = Bars
        /\ \A b \in 1..Bars : latestFrame.bands[b] >= 0
        /\ latestFrame.bass_fast >= 0
        /\ latestFrame.bass_smooth >= 0

\* a frame with energy in every band, returned for a window that holds
\* negative samples, after a call whose energy was different
C17_Witness ==
    /\ analyzed = MaxAnalyze
    /\ \E i \in 1..AnFft : scratch_window[i] < 0
    /\ \A b \in 1..Bars : latestFrame.bands[b] > 0
    /\ latestFrame.bass_fast > latestFrame.bass_smooth
    /\ latestFrame.bass_smooth > 0

\* C18: an analyze call on an all-zero window leaves every smoothed band
\* value, bass_fast and bass_smooth no larger than before the call and not
\* below 0.
C18_SilenceDecays ==
    [][(analyzed' = analyzed + 1 /\ scratch_window' = Zeros(AnFft)) =>
        /\ \A b \in 1..Bars :
            /\ smoothed_bands'[b] >= 0
            /\ smoothed_bands'[b] <= smoothed_bands[b]
        /\ bass_fast' >= 0 /\ bass_fast' <= bass_fast
        /\ bass_smooth' >= 0 /\ bass_smooth' <= bass_smooth]_vars

\* silence was analyzed after sound, and every value is still above 0
C18_Witness ==
    /\ analyzed >= 2
    /\ scratch_window = Zeros(AnFft)
    /\ \A b \in 1..Bars : smoothed_bands[b] > 0
    /\ bass_fast > 0
    /\ bass_smooth > 0
    /\ \A i \in 1..Len(magnitues) : magnitues[i] = 0

\* C19: for every sample rate in [8000, 192000] and every frequency range
\* [f0, f1] within [0, sample_rate / 2], freq_range_to_bin_range returns
\* (i0, i1) with i0 < i1 and i1 <= size / 2: the range is not empty and
\* every index in it is an index of the magnitude array.
C19_BinRangeValid ==
    (/\ binProbe # <<>>
     /\ binProbe.sr >= 8000 /\ binProbe.sr <= 192000
     /\ 0 <= binProbe.f0 /\ binProbe.f0 <= binProbe.f1
     /\ 2 * binProbe.f1 <= binProbe.sr) =>
        /\ 0 <= binProbe.range[1]
        /\ binProbe.range[1] < binProbe.range[2]
        /\ binProbe.range[2] <= binProbe.size \div 2

\* a range that starts and ends at the Nyquist frequency: i0 was lowered to
\* the last bin
C19_Witness ==
    /\ binProbe # <<>>
    /\ binProbe.size = 2048
    /\ binProbe.f0 = binProbe.f1
    /\ 2 * binProbe.f0 = binProbe.sr
    /\ binProbe.range = <<1023, 1024>>

\* C20: for the ascending band edges that analyze uses, from f_min to
\* f_max, the bin ranges of consecutive bands leave no gap (the first bin
\* of band b+1 is not above the end bin of band b) and overlap by at most
\* one bin, so the bands together cover the bins from that of f_min to that
\* of f_max.
C20_BandsContiguous ==
    bandProbe # <<>> =>
        LET rs == bandProbe.ranges
            n == bandProbe.size
            half == n \div 2
            first == (FMin * n) \div bandProbe.sr
            last == 0 - ((0 - FMax(bandProbe.sr) * n) \div bandProbe.sr)
        IN
        /\ Len(rs) = bandProbe.bars
        /\ \A b \in 1..(Len(rs) - 1) :
            /\ rs[b + 1][1] <= rs[b][2]
            /\ rs[b][2] - rs[b + 1][1] <= 1
        /\ rs[1][1] = Min(first, half - 1)
        /\ rs[Len(rs)][2] = Min(last, half)

\* bands of the full transform size, each wider than one bin, where one
\* band ends inside the first bin of the next
C20_Witness ==
    /\ bandProbe # <<>>
    /\ bandProbe.size = 2048
    /\ bandProbe.bars = Bars
    /\ \A b \in 1..Bars : bandProbe.ranges[b][2] > bandProbe.ranges[b][1] + 1
    /\ \E b \in 1..(Bars - 1) :
        bandProbe.ranges[b][2] = bandProbe.ranges[b + 1][1] + 1

\* C21: a read of the next 4-byte sample that fails, at the end of the
\* stream or part-way through a sample, pushes nothing, leaves the decode
\* loop and returns success; every sample fully read before has by then
\* been pushed to the audio ring buffer.
C21_ShortReadEndsCleanly ==
    /\ [][(mode = "url" /\ pl.pc = "read" /\ pl' # pl /\ pl'.pc # "push") =>
            /\ pl'.pc = "ended"
            /\ pl'.pos = pl.pos /\ pl'.cur = pl.cur
            /\ audioRb' = audioRb
            /\ audioPushed' = audioPushed]_vars
    /\ [][(mode = "url" /\ pl.pc = "ended") => pl' = pl]_vars
    /\ []((mode = "url" /\ pl.short) => pl.pc = "ended")
    /\ []((mode = "url" /\ pl.pc = "ended") =>
            audioPushed = Decoded(pl.pos \div 4))

\* the stream ended part-way through a sample after full samples were read,
\* one of them after a retry
C21_Witness ==
    /\ mode = "url"
    /\ pl.pc = "ended"
    /\ pl.short
    /\ pl.slept
    /\ Len(audioPushed) >= 2

\* C22 (as stated): both ends of the range are round(freq * size /
\* sample_rate), clamped to valid bin indices and widened to at least one
\* bin; for every frequency pair and sample rate freq_range_to_bin_range
\* returns that range.
C22_RoundRule ==
    binProbe # <<>> =>
        binProbe.range = FreqRangeToBinRangeRound(binProbe.sr, binProbe.size,
                                                  binProbe.f0, binProbe.f1)

\* the bin position f * size / sr lies in [a, a + 1): a is its floor
IsFloorBin(a, sr, size, f) == a * sr <= f * size /\ f * size < (a + 1) * sr

\* the bin position f * size / sr lies in (b - 1, b]: b is its ceiling
IsCeilBin(b, sr, size, f) == (b - 1) * sr < f * size /\ f * size <= b * sr

\* C22 (amended): the start of the range is floor(f0 * size / sample_rate)
\* and its end is ceil(f1 * size / sample_rate); both are raised to 0, the
\* start is lowered to size/2 - 1 and the end to size/2, and an empty range
\* is widened to one bin; for every frequency pair and sample rate
\* freq_range_to_bin_range returns that range.
C22_FloorCeilRule ==
    binProbe # <<>> =>
        LET half == binProbe.size \div 2
            bins == (0 - binProbe.size - 1)..(2 * binProbe.size + 1)
            a == CHOOSE x \in bins :
                    IsFloorBin(x, binProbe.sr, binProbe.size, binProbe.f0)
            b == CHOOSE x \in bins :
                    IsCeilBin(x, binProbe.sr, binProbe.size, binProbe.f1)
            i0 == Min(Max(a, 0), half - 1)
            i1 == Min(Max(b, 0), half)
        IN binProbe.range = <<i0, IF i1 <= i0 THEN i0 + 1 ELSE i1>>

\* a range inside the spectrum whose ends both fall between two bins: the
\* start is the bin below f0 and the end the bin above f1, and rounding to
\* the nearest bin gives another range
C22_Witness ==
    /\ binProbe # <<>>
    /\ binProbe.size = 2048
    /\ 0 < binProbe.f0 /\ binProbe.f0 < binProbe.f1
    /\ 2 * binProbe.f1 < binProbe.sr
    /\ binProbe.range[1] * binProbe.sr < binProbe.f0 * binProbe.size
    /\ binProbe.range[2] * binProbe.sr > binProbe.f1 * binProbe.size
    /\ binProbe.range[2] >
         RoundBin(binProbe.sr, binProbe.size, binProbe.f1)

\* the sample the decode loop has read and not yet pushed
InFlight == IF pl.pc \in {"push", "sleep"} THEN <<pl.cur>> ELSE <<>>

\* C23: in every interleaving of the decode thread and playback, the samples
\* handed to audio output, without the silence inserted on underrun, are a
\* prefix of the decoded stream in the decoder's order; every sample read
\* from the decoder has been played once, waits in the audio ring buffer or
\* is the one the loop is still pushing.
C23_OutputContinuity ==
    mode = "url" =>
        /\ IsPrefix(Real(output), Decoded(pl.pos \div 4))
        /\ Real(output) \o audioRb \o InFlight = Decoded(pl.pos \div 4)
        /\ \A i, j \in 1..Len(output) :
             (i < j /\ output[i] # 0) => output[i] < output[j] \/ output[j] = 0

\* the stream has ended and every decoded sample has been played, with an
\* underrun between two of them and after a push that had to be retried
C23_Witness ==
    /\ mode = "url"
    /\ pl.pc = "ended" /\ pl.slept
    /\ audioRb = <<>>
    /\ Len(Real(output)) >= 3
    /\ \E i, j, k \in 1..Len(output) :
         i < j /\ j < k /\ output[i] # 0 /\ output[j] = 0 /\ output[k] # 0

\* the ring buffer read_window drains
DrainedRb == IF mode = "mic" THEN micRb ELSE vizRb

\* C24: read_window never waits and always returns: a call that sees the
\* ring buffer empty returns with its next step, and the drain loop of every
\* call comes to its end, also while the producer keeps pushing.
C24_ReadWindowReturns ==
    /\ [][(mode \in {"mic", "url"} /\ rd.pc = "drain" /\ DrainedRb = <<>>
            /\ rd' # rd) => rd'.pc = "idle"]_vars
    /\ (mode \in {"mic", "url"} /\ rd.pc = "drain") ~> (rd.pc = "idle")
====
